---- MODULE Spec2Model ----
(***************************************************************************)
(* Model of scrape_v7_json.py: the embedded-props extractor, the slug      *)
(* discoverer (navigation-root selection, recursive walk, de-duplication), *)
(* the spec locator, the spec fetch loop and main's sanitize / validate /  *)
(* write pipeline.                                                         *)
(***************************************************************************)
EXTENDS Integers, Sequences, FiniteSets, TLC

(***************************************************************************)
(* JSON values as json.loads produces them.  Every value is a record of    *)
(* one shape: k is the kind, s the text of a scalar, keys the keys of a    *)
(* mapping in iteration (= document) order, e the values of a mapping (in  *)
(* the order of keys) or the elements of a sequence.                       *)
(***************************************************************************)
Str(t) == [k |-> "str", s |-> t, keys |-> <<>>, e |-> <<>>]
Num(t) == [k |-> "num", s |-> t, keys |-> <<>>, e |-> <<>>]
Null == [k |-> "null", s |-> "", keys |-> <<>>, e |-> <<>>]
List(elems) == [k |-> "seq", s |-> "", keys |-> <<>>, e |-> elems]
Map(ks, vs) == [k |-> "map", s |-> "", keys |-> ks, e |-> vs]
EmptyMap == Map(<<>>, <<>>)

IsMap(v) == v.k = "map"
IsSeq(v) == v.k = "seq"

\* Python truthiness of a decoded JSON value.
Truthy(v) ==
    CASE v.k = "map" -> Len(v.e) > 0
      [] v.k = "seq" -> Len(v.e) > 0
      [] v.k = "str" -> v.s # ""
      [] v.k = "num" -> v.s # "0"
      [] OTHER -> FALSE

HasKey(m, key) == \E j \in 1..Len(m.keys) : m.keys[j] = key

\* dict.get(key, default) on a mapping.
GetOr(m, key, default) ==
    IF HasKey(m, key)
    THEN m.e[CHOOSE j \in 1..Len(m.keys) : m.keys[j] = key]
    ELSE default

\* dict.get(key): None when the key is absent.
Get(m, key) == GetOr(m, key, Null)

\* The characters of the strings the model uses (str is a character sequence).
Chars(t) ==
    CASE t = "" -> <<>>
      [] t = "_" -> <<"_">>
      [] t = "x-" -> <<"x", "-">>
      [] t = "ab" -> <<"a", "b">>
      [] t = "openapi" -> <<"o", "p", "e", "n", "a", "p", "i">>
      [] t = "paths" -> <<"p", "a", "t", "h", "s">>
      [] t = "info" -> <<"i", "n", "f", "o">>
      [] t = "swagger" -> <<"s", "w", "a", "g", "g", "e", "r">>
      [] t = "_id" -> <<"_", "i", "d">>
      [] t = "_x-meta" -> <<"_", "x", "-", "m", "e", "t", "a">>
      [] t = "x-foo" -> <<"x", "-", "f", "o", "o">>
      [] t = "x_bar" -> <<"x", "_", "b", "a", "r">>
      [] t = "_internal" -> <<"_", "i", "n", "t", "e", "r", "n", "a", "l">>

\* str.startswith(prefix)
startswith(t, prefix) ==
    LET c == Chars(t)
        p == Chars(prefix)
    IN  Len(p) <= Len(c) /\ SubSeq(c, 1, Len(p)) = p

\* What a for loop / list.extend sees when it iterates a value.
Iterable(v) == v.k \in {"seq", "map", "str"}
Iter(v) ==
    CASE v.k = "seq" -> v.e
      [] v.k = "map" -> [j \in 1..Len(v.keys) |-> Str(v.keys[j])]
      [] v.k = "str" -> [j \in 1..Len(Chars(v.s)) |-> Str(Chars(v.s)[j])]
      [] OTHER -> <<>>

(***************************************************************************)
(* _get_initial_props: a page is what the GET of its URL yields.  status   *)
(* "fail" is a network error, a timeout or a non-2xx answer; tag says the  *)
(* #ssr-props element exists, attr that it carries data-initial-props, wf  *)
(* that the unescaped attribute text is well-formed JSON, val its value.   *)
(***************************************************************************)
Page(st, tg, at, w, v) == [status |-> st, tag |-> tg, attr |-> at, wf |-> w, val |-> v]
FailPage == Page("fail", FALSE, FALSE, FALSE, Null)
NoTagPage == Page("ok", FALSE, FALSE, FALSE, Null)
NoAttrPage == Page("ok", TRUE, FALSE, FALSE, Null)
BadJsonPage == Page("ok", TRUE, TRUE, FALSE, Null)
JsonPage(v) == Page("ok", TRUE, TRUE, TRUE, v)

Ret(r, v, w) == [raised |-> r, val |-> v, warn |-> w]

\* Variant: json.loads outside any try, the decode error propagates.
_get_initial_props_raising(page) ==
    IF page.status # "ok" THEN Ret("RequestException", Null, 0)
    ELSE IF ~page.tag THEN Ret("none", EmptyMap, 0)
    ELSE IF ~page.attr THEN Ret("KeyError", Null, 0)
    ELSE IF ~page.wf THEN Ret("JSONDecodeError", Null, 0)
    ELSE Ret("none", page.val, 0)

_get_initial_props(page) ==
    IF page.status # "ok" THEN Ret("RequestException", Null, 0)
    ELSE IF ~page.tag THEN Ret("none", EmptyMap, 0)
    ELSE IF ~page.attr THEN Ret("KeyError", Null, 0)
    ELSE IF ~page.wf THEN Ret("none", EmptyMap, 1)
    ELSE Ret("none", page.val, 0)

(***************************************************************************)
(* get_endpoint_slugs.walk and the de-duplication of its output.           *)
(***************************************************************************)
\* Variant: one of the alternative child keys is not looked at.
ChildKeysNoItems == <<"pages", "children">>

ChildKeys == <<"pages", "children", "items">>

\* children = [] ; for key in (...): children.extend(n.get(key, []))
RECURSIVE ChildrenFrom(_, _)
ChildrenFrom(n, j) ==
    IF j > Len(ChildKeys) THEN <<>>
    ELSE Iter(GetOr(n, ChildKeys[j], List(<<>>))) \o ChildrenFrom(n, j + 1)

Children(n) == ChildrenFrom(n, 1)

IsLeafEndpoint(n) == Get(n, "type") = Str("endpoint") /\ Truthy(Get(n, "slug"))

RECURSIVE walk(_)
\* Variant: a node's descendants are emitted before the node's own slug.
walkChildrenFirst(nodes) ==
    IF Len(nodes) = 0 THEN <<>>
    ELSE LET n == Head(nodes)
             own == IF IsLeafEndpoint(n) THEN <<Get(n, "slug")>> ELSE <<>>
             below == IF Len(Children(n)) > 0 THEN walk(Children(n)) ELSE <<>>
         IN  (IF IsMap(n) THEN below \o own ELSE <<>>) \o walk(Tail(nodes))

walk(nodes) ==
    IF Len(nodes) = 0 THEN <<>>
    ELSE LET n == Head(nodes)
             own == IF IsLeafEndpoint(n) THEN <<Get(n, "slug")>> ELSE <<>>
             below == IF Len(Children(n)) > 0 THEN walk(Children(n)) ELSE <<>>
         IN  (IF IsMap(n) THEN own \o below ELSE <<>>) \o walk(Tail(nodes))

\* list.extend raises TypeError on a child value that cannot be iterated.
RECURSIVE walkRaises(_)
walkRaises(nodes) ==
    \E j \in 1..Len(nodes) :
        /\ IsMap(nodes[j])
        /\ \/ \E c \in 1..Len(ChildKeys) :
                  ~Iterable(GetOr(nodes[j], ChildKeys[c], List(<<>>)))
           \/ walkRaises(Children(nodes[j]))

\* list(dict.fromkeys(xs)): first occurrences, in order.
RECURSIVE DeDupe(_)
DeDupe(xs) ==
    IF Len(xs) = 0 THEN <<>>
    ELSE LET front == DeDupe(SubSeq(xs, 1, Len(xs) - 1))
             last == xs[Len(xs)]
         IN  IF \E j \in 1..Len(front) : front[j] = last
             THEN front
             ELSE Append(front, last)

(***************************************************************************)
(* get_endpoint_slugs: the navigation root and the slug list.              *)
(***************************************************************************)
Slugs(r, sb, nodes, sl) == [raised |-> r, sidebars |-> sb, nodes |-> nodes, slugs |-> sl]

\* Variant: always the first sidebar.
SelectFirstRoot(sidebars_root) == sidebars_root.e[1]

\* sidebars_root.get("refs") or next(iter(sidebars_root.values()))
SelectRoot(sidebars_root) ==
    IF Truthy(Get(sidebars_root, "refs")) THEN Get(sidebars_root, "refs")
    ELSE sidebars_root.e[1]

\* [sidebars] for a dict, else sidebars or []
SidebarNodes(sidebars) ==
    IF IsMap(sidebars) THEN <<sidebars>>
    ELSE IF Truthy(sidebars) THEN Iter(sidebars)
    ELSE <<>>

\* "LayoutChanged" is the RuntimeError "Could not locate 'refs' sidebar ...".
get_endpoint_slugs(data) ==
    IF ~IsMap(data) THEN Slugs("AttributeError", Null, <<>>, <<>>)
    ELSE LET sidebars_root == GetOr(data, "sidebars", EmptyMap)
         IN  IF ~IsMap(sidebars_root)
             THEN Slugs("LayoutChanged", Null, <<>>, <<>>)
             ELSE IF ~Truthy(Get(sidebars_root, "refs")) /\ Len(sidebars_root.e) = 0
             THEN Slugs("LayoutChanged", Null, <<>>, <<>>)
             ELSE LET sidebars == SelectRoot(sidebars_root)
                      nodes == SidebarNodes(sidebars)
                  IN  IF ~IsMap(sidebars) /\ Truthy(sidebars) /\ ~Iterable(sidebars)
                      THEN Slugs("TypeError", sidebars, <<>>, <<>>)
                      ELSE IF walkRaises(nodes)
                      THEN Slugs("TypeError", sidebars, nodes, <<>>)
                      ELSE Slugs("none", sidebars, nodes, DeDupe(walk(nodes)))

(***************************************************************************)
(* _find_oas: depth-first search for a mapping shaped like a spec.         *)
(***************************************************************************)
\* Variant: the locator's predicate without the openapi test.
LooksLikeSpecPathsOnly(obj) == Truthy(Get(obj, "paths"))

LooksLikeSpec(obj) == Truthy(Get(obj, "paths")) /\ Truthy(Get(obj, "openapi"))

RECURSIVE _find_oas(_)
RECURSIVE FindIn(_)
\* Variant: the result of the first item is returned whatever it is.
FindInFirstOnly(items) ==
    IF Len(items) = 0 THEN Null ELSE _find_oas(Head(items))

\* the for loops of _find_oas: the first truthy result among the items
FindIn(items) ==
    IF Len(items) = 0 THEN Null
    ELSE LET found == _find_oas(Head(items))
         IN  IF Truthy(found) THEN found ELSE FindIn(Tail(items))

_find_oas(obj) ==
    IF IsMap(obj)
    THEN IF LooksLikeSpec(obj) THEN obj ELSE FindIn(obj.e)
    ELSE IF IsSeq(obj) THEN FindIn(obj.e)
    ELSE Null

(***************************************************************************)
(* fetch_oas_definition: what one iteration of the loop does with the page *)
(* of its slug.                                                            *)
(***************************************************************************)
\* props.get("oasDefinition") or _find_oas(props)
SelectSpec(props) ==
    IF Truthy(Get(props, "oasDefinition"))
    THEN Get(props, "oasDefinition")
    ELSE _find_oas(props)

Step(kd, d, er, w) == [kind |-> kd, doc |-> d, err |-> er, warn |-> w]

\* Variant: no try / except around the fetch, the exception leaves the loop.
FetchStepFatal(page) ==
    LET r == _get_initial_props(page)
    IN  IF r.raised # "none" THEN Step("raise", Null, r.raised, 0)
        ELSE IF ~IsMap(r.val) THEN Step("raise", Null, "AttributeError", r.warn)
        ELSE LET spec == SelectSpec(r.val)
             IN  IF ~Truthy(spec) THEN Step("miss", Null, "none", r.warn)
                 ELSE IF ~IsMap(spec) THEN Step("raise", Null, "AttributeError", r.warn)
                 ELSE IF Truthy(Get(spec, "paths")) THEN Step("hit", spec, "none", r.warn)
                 ELSE Step("miss", Null, "none", r.warn)

\* kind: "skip" (the except branch), "miss" (falls through to the next slug),
\* "hit" (return spec), "raise" (an exception outside the try).
FetchStep(page) ==
    LET r == _get_initial_props(page)
    IN  IF r.raised # "none" THEN Step("skip", Null, "none", 0)
        ELSE IF ~IsMap(r.val) THEN Step("raise", Null, "AttributeError", r.warn)
        ELSE LET spec == SelectSpec(r.val)
             IN  IF ~Truthy(spec) THEN Step("miss", Null, "none", r.warn)
                 ELSE IF ~IsMap(spec) THEN Step("raise", Null, "AttributeError", r.warn)
                 ELSE IF Truthy(Get(spec, "paths")) THEN Step("hit", spec, "none", r.warn)
                 ELSE Step("miss", Null, "none", r.warn)

(***************************************************************************)
(* main: the sanitizer.                                                    *)
(***************************************************************************)
\* Variant: the "not" of the second test is missing.
IsIllegalKeyNoNot(key) == startswith(key, "_") /\ startswith(key, "x-")

\* key.startswith("_") and not key.startswith("x-")
IsIllegalKey(key) == startswith(key, "_") /\ ~startswith(key, "x-")

\* for key in list(spec.keys()): if ...: spec.pop(key, None)
Sanitize(doc) ==
    LET keep == SelectSeq([j \in 1..Len(doc.keys) |-> j],
                          LAMBDA j : ~IsIllegalKey(doc.keys[j]))
    IN  Map([j \in 1..Len(keep) |-> doc.keys[keep[j]]],
            [j \in 1..Len(keep) |-> doc.e[keep[j]]])

(***************************************************************************)
(* Inputs: the pages the site may serve.                                   *)
(***************************************************************************)
MaxSlugs == 3
SlugNames == <<"a", "b", "c", "d", "e">>

Ep(sl) == Map(<<"type", "slug">>, <<Str("endpoint"), Str(sl)>>)
Cat(key, kids) == Map(<<"type", key>>, <<Str("category"), List(kids)>>)
EpList(n) == [j \in 1..n |-> Ep(SlugNames[j])]

Paths1 == Map(<<"/p">>, <<EmptyMap>>)
DocFull ==
    Map(<<"openapi", "_id", "info", "paths", "x-foo", "_x-meta", "x_bar">>,
        <<Str("3.0.0"), Num("7"), Map(<<"_internal", "title">>, <<Num("1"), Str("t")>>),
          Paths1, Num("2"), Str("m"), Num("3")>>)
DocPlain == Map(<<"openapi", "paths">>, <<Str("3.1.0"), Paths1>>)
DocSwagger == Map(<<"swagger", "_id", "paths">>, <<Str("2.0"), Num("9"), Paths1>>)
DocNoPaths == Map(<<"openapi">>, <<Str("3.0.0")>>)
DocEmptyPaths == Map(<<"openapi", "paths">>, <<Str("3.0.0"), EmptyMap>>)

SlugPages ==
    { FailPage, NoTagPage, NoAttrPage, BadJsonPage,
      JsonPage(EmptyMap),
      JsonPage(Map(<<"oasDefinition">>, <<DocFull>>)),
      JsonPage(Map(<<"meta", "data">>, <<Str("t"), Map(<<"api">>, <<DocPlain>>)>>)),
      JsonPage(Map(<<"oasDefinition">>, <<DocSwagger>>)),
      JsonPage(Map(<<"oasDefinition", "doc">>, <<DocNoPaths, DocPlain>>)),
      JsonPage(Map(<<"oasDefinition", "doc">>, <<Null, DocFull>>)),
      JsonPage(Map(<<"oasDefinition">>, <<Str("ab")>>)),
      JsonPage(Map(<<"doc">>, <<DocSwagger>>)),
      JsonPage(Map(<<"doc">>, <<DocEmptyPaths>>)),
      JsonPage(List(<<DocPlain>>)) }

Sidebars(ks, vs) == Map(<<"sidebars">>, <<Map(ks, vs)>>)

RootData ==
    { Sidebars(<<"refs">>, <<List(<<Cat("pages", EpList(n))>>)>>) : n \in 0..MaxSlugs }
    \cup
    { Sidebars(<<"docs", "refs">>, <<List(<<Ep("d")>>), List(EpList(2))>>),
      Sidebars(<<"docs">>, <<List(<<Ep("d")>>)>>),
      Sidebars(<<"docs", "refs">>, <<List(<<Ep("d")>>), List(<<>>)>>),
      Sidebars(<<"refs", "docs">>, <<Null, List(<<Ep("d")>>)>>),
      Sidebars(<<"refs">>, <<Cat("items", <<Ep("a"), Str("x"), Ep("a")>>)>>),
      Sidebars(<<"refs">>, <<Str("ab")>>),
      Sidebars(<<"docs">>, <<Num("5")>>),
      Sidebars(<<"refs">>, <<List(<<Map(<<"children">>, <<Null>>)>>)>>),
      Sidebars(<<>>, <<>>),
      EmptyMap,
      Map(<<"sidebars">>, <<List(<<Ep("a")>>)>>),
      Map(<<"sidebars">>, <<Null>>),
      List(<<Sidebars(<<"refs">>, <<List(<<Ep("a")>>)>>)>>) }

RootPages ==
    { FailPage, NoTagPage, NoAttrPage, BadJsonPage } \cup { JsonPage(d) : d \in RootData }

(***************************************************************************)
(* The run of the program as a state machine.                              *)
(***************************************************************************)
VARIABLES
    pc,        \* where the run is
    rootPage,  \* the page served for BASE
    props,     \* what the last call of _get_initial_props gave
    sidebars,  \* get_endpoint_slugs' navigation root
    slugs,     \* main's slugs
    i,         \* position of fetch_oas_definition's for loop in slugs
    fetched,   \* the slug pages requested so far, in order: [slug, page]
    found,     \* what fetch_oas_definition returned
    spec,      \* main's spec
    valid,     \* how validate_spec went
    warnings,  \* decode warnings printed so far
    output,    \* the output file
    exitCode,  \* the exit status, -1 while running
    error,     \* the exception that ended main
    nav,       \* a sidebar node list given to walk on its own
    out,       \* the slug list it gave
    nav2,      \* nav with one node's children moved to another child key
    out2,      \* the slug list of nav2
    mv,        \* the move: the node as it was, the key moved from and to
    obj,       \* a value given to _find_oas on its own
    located    \* what _find_oas gave

mainVars == <<pc, rootPage, props, sidebars, slugs, i, fetched, found, spec, valid,
              warnings, output, exitCode, error>>
walkVars == <<nav, out, nav2, out2, mv>>
findVars == <<obj, located>>
vars == <<mainVars, walkVars, findVars>>

NoPage == Page("none", FALSE, FALSE, FALSE, Null)
NoRet == Ret("unset", Null, 0)
NoFile == [written |-> FALSE, doc |-> Null]

NoMove == [node |-> Null, from |-> "", to |-> ""]

Init ==
    /\ pc = "main"
    /\ rootPage = NoPage
    /\ props = NoRet
    /\ sidebars = Null
    /\ slugs = <<>>
    /\ i = 1
    /\ fetched = <<>>
    /\ found = Null
    /\ spec = Null
    /\ valid = "unset"
    /\ warnings = 0
    /\ output = NoFile
    /\ exitCode = -1
    /\ error = "none"
    /\ nav = <<>>
    /\ out = <<>>
    /\ nav2 = <<>>
    /\ out2 = <<>>
    /\ mv = NoMove
    /\ obj = Null
    /\ located = Null

\* main: slugs = get_endpoint_slugs()
DiscoverSlugs ==
    /\ pc = "main"
    /\ \E rp \in RootPages :
        LET r == _get_initial_props(rp)
            g == get_endpoint_slugs(r.val)
        IN  /\ rootPage' = rp
            /\ props' = r
            /\ warnings' = warnings + r.warn
            /\ IF r.raised # "none"
               THEN /\ error' = r.raised
                    /\ pc' = "except"
                    /\ UNCHANGED <<sidebars, slugs>>
               ELSE /\ sidebars' = g.sidebars
                    /\ slugs' = g.slugs
                    /\ error' = g.raised
                    /\ pc' = IF g.raised = "none" THEN "loop" ELSE "except"
    /\ UNCHANGED <<i, fetched, found, spec, valid, output, exitCode>>
    /\ UNCHANGED <<walkVars, findVars>>

\* Variant: a hit is remembered but the loop goes on to the end of the list.
TryFetchLastWins ==
    /\ pc = "loop"
    /\ i <= Len(slugs)
    /\ \E pg \in SlugPages :
        LET st == FetchStep(pg)
            hit == IF st.kind = "hit" THEN st.doc ELSE found
        IN  /\ fetched' = Append(fetched, [slug |-> slugs[i], page |-> pg])
            /\ props' = _get_initial_props(pg)
            /\ warnings' = warnings + st.warn
            /\ IF st.kind = "raise"
               THEN /\ error' = st.err
                    /\ pc' = "except"
                    /\ UNCHANGED <<i, found, spec>>
               ELSE IF i = Len(slugs) /\ Truthy(hit)
               THEN /\ found' = hit
                    /\ spec' = hit
                    /\ pc' = "sanitize"
                    /\ UNCHANGED <<i, error>>
               ELSE /\ found' = hit
                    /\ i' = i + 1
                    /\ UNCHANGED <<pc, spec, error>>
    /\ UNCHANGED <<rootPage, sidebars, slugs, valid, output, exitCode>>
    /\ UNCHANGED <<walkVars, findVars>>

\* fetch_oas_definition: one iteration of the for loop
TryFetch ==
    /\ pc = "loop"
    /\ i <= Len(slugs)
    /\ \E pg \in SlugPages :
        LET st == FetchStep(pg)
        IN  /\ fetched' = Append(fetched, [slug |-> slugs[i], page |-> pg])
            /\ props' = _get_initial_props(pg)
            /\ warnings' = warnings + st.warn
            /\ CASE st.kind = "hit" ->
                      /\ found' = st.doc
                      /\ spec' = st.doc
                      /\ pc' = "sanitize"
                      /\ UNCHANGED <<i, error>>
                 [] st.kind = "raise" ->
                      /\ error' = st.err
                      /\ pc' = "except"
                      /\ UNCHANGED <<i, found, spec>>
                 [] OTHER ->
                      /\ i' = i + 1
                      /\ UNCHANGED <<pc, found, spec, error>>
    /\ UNCHANGED <<rootPage, sidebars, slugs, valid, output, exitCode>>
    /\ UNCHANGED <<walkVars, findVars>>

\* fetch_oas_definition: the raise after the loop ("SpecNotFound" is the
\* RuntimeError "Failed to find oasDefinition in any endpoint page")
Exhausted ==
    /\ pc = "loop"
    /\ i > Len(slugs)
    /\ error' = "SpecNotFound"
    /\ pc' = "except"
    /\ UNCHANGED <<rootPage, props, sidebars, slugs, i, fetched, found, spec, valid,
                   warnings, output, exitCode>>
    /\ UNCHANGED <<walkVars, findVars>>

\* main: remove the illegal top-level fields
SanitizeSpec ==
    /\ pc = "sanitize"
    /\ spec' = Sanitize(spec)
    /\ pc' = "validate"
    /\ UNCHANGED <<rootPage, props, sidebars, slugs, i, fetched, found, valid,
                   warnings, output, exitCode, error>>
    /\ UNCHANGED <<walkVars, findVars>>

\* Variant: validation is a gate, its exception leaves main.
ValidateSpecGate ==
    /\ pc = "validate"
    /\ \E ok \in BOOLEAN :
        /\ valid' = IF ok THEN "ok" ELSE "failed"
        /\ pc' = IF ok THEN "write" ELSE "except"
        /\ error' = IF ok THEN error ELSE "ValidationError"
    /\ UNCHANGED <<rootPage, props, sidebars, slugs, i, fetched, found, spec,
                   warnings, output, exitCode>>
    /\ UNCHANGED <<walkVars, findVars>>

\* main: validate_spec(spec) inside try / except Exception
ValidateSpec ==
    /\ pc = "validate"
    /\ \E ok \in BOOLEAN : valid' = IF ok THEN "ok" ELSE "failed"
    /\ pc' = "write"
    /\ UNCHANGED <<rootPage, props, sidebars, slugs, i, fetched, found, spec,
                   warnings, output, exitCode, error>>
    /\ UNCHANGED <<walkVars, findVars>>

\* main: OUTPUT.write_text(json.dumps(spec, ...)), then the normal exit
WriteOutput ==
    /\ pc = "write"
    /\ output' = [written |-> TRUE, doc |-> spec]
    /\ exitCode' = 0
    /\ pc' = "done"
    /\ UNCHANGED <<rootPage, props, sidebars, slugs, i, fetched, found, spec, valid,
                   warnings, error>>
    /\ UNCHANGED <<walkVars, findVars>>

\* __main__: except Exception -> sys.exit(1)
HandleError ==
    /\ pc = "except"
    /\ exitCode' = 1
    /\ pc' = "exit1"
    /\ UNCHANGED <<rootPage, props, sidebars, slugs, i, fetched, found, spec, valid,
                   warnings, output, error>>
    /\ UNCHANGED <<walkVars, findVars>>

Next ==
    \/ DiscoverSlugs
    \/ TryFetch
    \/ Exhausted
    \/ SanitizeSpec
    \/ ValidateSpec
    \/ WriteOutput
    \/ HandleError

Spec == Init /\ [][Next]_vars

(***************************************************************************)
(* The slug discoverer on its own: walk and the de-duplication applied to  *)
(* navigation trees, and to the same tree with one node's children moved   *)
(* from one child key to another.                                          *)
(***************************************************************************)
MaxKids == 1

\* Sequences over S of length at most n.
RECURSIVE SeqsUpTo(_, _)
SeqsUpTo(S, n) ==
    IF n = 0 THEN {<<>>}
    ELSE SeqsUpTo(S, n - 1) \cup
         {Append(q, x) : q \in {r \in SeqsUpTo(S, n - 1) : Len(r) = n - 1}, x \in S}

\* A node with the child keys that hold something, in the given order.
Node(ty, sl, order, kids) ==
    LET present == SelectSeq(order, LAMBDA key : Len(kids[key]) > 0)
    IN  Map(<<"type", "slug">> \o present,
            <<Str(ty), Str(sl)>> \o [j \in 1..Len(present) |-> List(kids[present[j]])])

KidSeqs == SeqsUpTo({Ep("a"), Ep("b"), Str("x")}, MaxKids)

MidNodes ==
    { Node(h[1], h[2], <<"items", "pages", "children">>,
           [pages |-> p, children |-> c, items |-> t]) :
        h \in {<<"endpoint", "m">>, <<"endpoint", "">>, <<"category", "c">>},
        p \in KidSeqs, c \in KidSeqs, t \in KidSeqs }

NavTrees ==
    { <<m>> : m \in MidNodes }
    \cup
    { <<Str("x"), Map(<<"type", "slug">>, <<Str("page"), Str("p")>>),
        Cat("items", <<m, Ep("a")>>), Ep("m")>> : m \in MidNodes }
    \cup
    { <<Map(<<"slug">>, <<Str("z")>>),
        Map(<<"type", "slug", "pages">>, <<Str("endpoint"), Null, List(<<>>)>>),
        m>> : m \in {n \in MidNodes : Get(n, "slug") = Str("m")} }

\* The node with the children under key f moved to the end of key t.
MoveKey(n, f, t) ==
    LET moved == Get(n, f).e
        rest == SelectSeq([j \in 1..Len(n.keys) |-> j], LAMBDA j : n.keys[j] # f)
    IN  IF HasKey(n, t)
        THEN Map([j \in 1..Len(rest) |-> n.keys[rest[j]]],
                 [j \in 1..Len(rest) |->
                     IF n.keys[rest[j]] = t THEN List(n.e[rest[j]].e \o moved)
                     ELSE n.e[rest[j]]])
        ELSE Map([j \in 1..Len(n.keys) |-> IF n.keys[j] = f THEN t ELSE n.keys[j]], n.e)

\* The recognized child keys.
RecognizedKeys == {"pages", "children", "items"}
HoldsKids(n, key) == HasKey(n, key) /\ Get(n, key).k = "seq" /\ Len(Get(n, key).e) > 0

\* Every way to move the children of one node of the tree: the new tree,
\* the node as it was, the key moved from and the key moved to.
RECURSIVE MovesOf(_)
MovesOf(nodes) ==
    UNION { IF nodes[j].k # "map" THEN {}
            ELSE { [nav |-> [nodes EXCEPT ![j] = MoveKey(nodes[j], ft[1], ft[2])],
                    node |-> nodes[j], from |-> ft[1], to |-> ft[2]] :
                   ft \in {x \in RecognizedKeys \X RecognizedKeys :
                              x[1] # x[2] /\ HoldsKids(nodes[j], x[1])} }
                 \cup
                 UNION { { [nav |-> [nodes EXCEPT ![j] =
                                [@ EXCEPT !.e = [c \in 1..Len(@) |->
                                    IF nodes[j].keys[c] = key THEN List(m.nav) ELSE @[c]]]],
                            node |-> m.node, from |-> m.from, to |-> m.to] :
                           m \in MovesOf(Get(nodes[j], key).e) } :
                         key \in {x \in RecognizedKeys : HoldsKids(nodes[j], x)} }
          : j \in 1..Len(nodes) }

InitWalk ==
    /\ pc = "walk"
    /\ nav \in NavTrees
    /\ out = <<>>
    /\ nav2 = <<>>
    /\ out2 = <<>>
    /\ mv = NoMove
    /\ rootPage = NoPage /\ props = NoRet /\ sidebars = Null /\ slugs = <<>>
    /\ i = 1 /\ fetched = <<>> /\ found = Null /\ spec = Null /\ valid = "unset"
    /\ warnings = 0 /\ output = NoFile /\ exitCode = -1 /\ error = "none"
    /\ obj = Null /\ located = Null

\* return list(dict.fromkeys(walk(sidebar_nodes)))
WalkNav ==
    /\ pc = "walk"
    /\ out' = DeDupe(walk(nav))
    /\ pc' = "walked"
    /\ UNCHANGED <<nav, nav2, out2, mv>>
    /\ UNCHANGED <<rootPage, props, sidebars, slugs, i, fetched, found, spec, valid,
                   warnings, output, exitCode, error, findVars>>

\* the same on the tree after a move
WalkMoved ==
    /\ pc = "walked"
    /\ \E m \in MovesOf(nav) :
        /\ nav2' = m.nav
        /\ mv' = [node |-> m.node, from |-> m.from, to |-> m.to]
        /\ out2' = DeDupe(walk(m.nav))
    /\ pc' = "moved"
    /\ UNCHANGED <<nav, out>>
    /\ UNCHANGED <<rootPage, props, sidebars, slugs, i, fetched, found, spec, valid,
                   warnings, output, exitCode, error, findVars>>

NextWalk == WalkNav \/ WalkMoved

SpecWalk == InitWalk /\ [][NextWalk]_vars

(***************************************************************************)
(* The spec locator on its own.                                            *)
(***************************************************************************)
MaxItems == 2
ItemKeys == <<"a", "b", "c", "d">>

DocFalsyVersion == Map(<<"openapi", "paths">>, <<Str(""), Paths1>>)
DocAroundDoc == Map(<<"openapi", "paths">>, <<Str("3.0.0"), Map(<<"/x">>, <<DocPlain>>)>>)
PathsAroundDoc == Map(<<"paths">>, <<Map(<<"/x">>, <<DocFull>>)>>)
EmptyPathsAroundDoc ==
    Map(<<"openapi", "paths", "next">>, <<Str("3.0.0"), EmptyMap, List(<<DocPlain>>)>>)

FindAtoms ==
    { DocPlain, DocFull, DocSwagger, DocEmptyPaths, DocFalsyVersion, DocAroundDoc,
      PathsAroundDoc, EmptyPathsAroundDoc, Str("t"), Null, EmptyMap, List(<<>>) }

FindInputs ==
    LET rows == SeqsUpTo(FindAtoms, MaxItems)
    IN  FindAtoms
        \cup { List(r) : r \in rows }
        \cup { Map(SubSeq(ItemKeys, 1, Len(r)), r) : r \in rows }
        \cup { Map(<<"props">>, <<List(<<Str("t"), Map(SubSeq(ItemKeys, 1, Len(r)), r)>>)>>) :
                 r \in rows }

InitFind ==
    /\ pc = "find"
    /\ obj \in FindInputs
    /\ located = Null
    /\ nav = <<>> /\ out = <<>> /\ nav2 = <<>> /\ out2 = <<>> /\ mv = NoMove
    /\ rootPage = NoPage /\ props = NoRet /\ sidebars = Null /\ slugs = <<>>
    /\ i = 1 /\ fetched = <<>> /\ found = Null /\ spec = Null /\ valid = "unset"
    /\ warnings = 0 /\ output = NoFile /\ exitCode = -1 /\ error = "none"

\* _find_oas(obj)
Locate ==
    /\ pc = "find"
    /\ located' = _find_oas(obj)
    /\ pc' = "located"
    /\ UNCHANGED <<obj, walkVars>>
    /\ UNCHANGED <<rootPage, props, sidebars, slugs, i, fetched, found, spec, valid,
                   warnings, output, exitCode, error>>

NextFind == Locate

SpecFind == InitFind /\ [][NextFind]_vars

(***************************************************************************)
(* Vocabulary of the properties.                                           *)
(***************************************************************************)
\* fetch_oas_definition returned a document to main.
LoopReturned == pc \in {"sanitize", "validate", "write", "done"}

\* Every mapping inside a value, in depth-first pre-order.
RECURSIVE MapsPreOrder(_)
RECURSIVE MapsIn(_)
MapsIn(items) ==
    IF Len(items) = 0 THEN <<>>
    ELSE MapsPreOrder(Head(items)) \o MapsIn(Tail(items))

MapsPreOrder(v) ==
    IF v.k = "map" THEN <<v>> \o MapsIn(v.e)
    ELSE IF v.k = "seq" THEN MapsIn(v.e)
    ELSE <<>>

\* The data model's OpenAPI document: truthy openapi and truthy paths.
ValidDoc(m) == m.k = "map" /\ Truthy(Get(m, "openapi")) /\ Truthy(Get(m, "paths"))

\* The page was fetched and decoded, and its props are v.
HasProps(page, v) ==
    page.status = "ok" /\ page.tag /\ page.attr /\ page.wf /\ page.val = v

\* The page's props, a mapping, contain a valid spec somewhere.
ContainsValidSpec(page) ==
    /\ page.status = "ok" /\ page.tag /\ page.attr /\ page.wf
    /\ page.val.k = "map"
    /\ \E j \in 1..Len(MapsPreOrder(page.val)) : ValidDoc(MapsPreOrder(page.val)[j])

\* The document the loop takes from a page: the truthy direct key, else the
\* locator's result; accepted when it is a mapping with truthy paths.
Accepted(page) ==
    /\ page.status = "ok" /\ page.tag /\ page.attr /\ page.wf
    /\ page.val.k = "map"
    /\ SelectSpec(page.val).k = "map"
    /\ Truthy(Get(SelectSpec(page.val), "paths"))

InListOrder == \A j \in 1..Len(fetched) : j <= Len(slugs) /\ fetched[j].slug = slugs[j]

(***************************************************************************)
(* C1 (as stated): slugs are fetched strictly in list order, the loop      *)
(* returns the document of the first slug whose fetched props contain a    *)
(* valid spec, and no slug after that one is ever fetched.                 *)
(***************************************************************************)
C1_FirstValidSpecWins ==
    /\ InListOrder
    /\ \A j \in 1..Len(fetched) :
          ContainsValidSpec(fetched[j].page) => (j = Len(fetched) /\ LoopReturned)
    /\ LoopReturned =>
          /\ Len(fetched) >= 1
          /\ found = SelectSpec(fetched[Len(fetched)].page.val)

(***************************************************************************)
(* C1 (amended): slugs are fetched strictly in list order; whenever the    *)
(* loop returns, it returns the document selected from the page of the     *)
(* first slug whose selected document (the truthy oasDefinition value,     *)
(* else the Spec Locator's result) is a mapping with truthy paths, and no  *)
(* slug after that one is ever fetched.                                    *)
(***************************************************************************)
C1_FirstAcceptedWins ==
    /\ InListOrder
    /\ \A j \in 1..Len(fetched) :
          Accepted(fetched[j].page) => (j = Len(fetched) /\ LoopReturned)
    /\ LoopReturned =>
          /\ Len(fetched) >= 1
          /\ Accepted(fetched[Len(fetched)].page)
          /\ found = SelectSpec(fetched[Len(fetched)].page.val)

\* Three slugs, the first a miss, the second a hit: the third is never fetched.
C1_Witness ==
    /\ pc = "done"
    /\ Len(slugs) = 3
    /\ Len(fetched) = 2
    /\ ~Accepted(fetched[1].page)
    /\ Accepted(fetched[2].page)

(***************************************************************************)
(* C2: a fetch failure of a slug page is never fatal: the slug is skipped  *)
(* and the loop goes on, so the loop ends as it would on the same list     *)
(* without the failing slugs.                                              *)
(***************************************************************************)
FetchFailed(page) == page.status = "fail"

\* The loop has ended: it returned, or raised.
LoopEnded == LoopReturned \/ error = "SpecNotFound" \/ (pc \in {"except", "exit1"} /\ fetched # <<>>)

Outcome(kd, d) == [kind |-> kd, doc |-> d]

LoopOutcome ==
    IF LoopReturned THEN Outcome("returned", found)
    ELSE IF error = "SpecNotFound" THEN Outcome("not-found", Null)
    ELSE Outcome(error, Null)

\* How the loop ends on pages none of which failed to fetch.
RECURSIVE OutcomeOn(_)
OutcomeOn(pages) ==
    IF Len(pages) = 0 THEN Outcome("not-found", Null)
    ELSE LET pg == Head(pages)
         IN  IF ~(pg.tag /\ pg.attr /\ pg.wf) THEN OutcomeOn(Tail(pages))
             ELSE IF pg.val.k # "map" THEN Outcome("AttributeError", Null)
             ELSE IF ~Truthy(SelectSpec(pg.val)) THEN OutcomeOn(Tail(pages))
             ELSE IF SelectSpec(pg.val).k # "map" THEN Outcome("AttributeError", Null)
             ELSE IF Truthy(Get(SelectSpec(pg.val), "paths"))
                  THEN Outcome("returned", SelectSpec(pg.val))
             ELSE OutcomeOn(Tail(pages))

FetchedPages == [j \in 1..Len(fetched) |-> fetched[j].page]

C2_FetchFailureSkipped ==
    /\ \A j \in 1..Len(fetched) :
          FetchFailed(fetched[j].page) => (j < Len(fetched) \/ (pc = "loop" /\ i = j + 1)
                                            \/ error = "SpecNotFound")
    /\ LoopEnded =>
          LoopOutcome = OutcomeOn(SelectSeq(FetchedPages, LAMBDA pg : ~FetchFailed(pg)))

\* A failing slug, then a slug whose document is returned and written.
C2_Witness ==
    /\ pc = "done"
    /\ Len(fetched) >= 2
    /\ FetchFailed(fetched[1].page)

(***************************************************************************)
(* C3: the output file is written if and only if the loop returned a       *)
(* document: written, with exit 0, whether or not validation fails; not    *)
(* written, with a non-zero exit, when the run ends with the structural    *)
(* error or with spec-not-found.                                           *)
(***************************************************************************)
C3_WrittenIffReturned ==
    /\ output.written => (pc = "done" /\ Truthy(found))
    /\ LoopReturned => (Truthy(found) /\ error = "none")
    /\ Truthy(found) => LoopReturned
    /\ pc = "done" => (output.written /\ exitCode = 0 /\ valid \in {"ok", "failed"})
    /\ pc = "exit1" => (~output.written /\ exitCode = 1 /\ ~Truthy(found))
    /\ error \in {"LayoutChanged", "SpecNotFound"} => (pc \in {"except", "exit1"} /\ ~output.written)
    /\ exitCode # -1 <=> pc \in {"done", "exit1"}

\* A run whose document fails validation and is written all the same.
C3_Witness == pc = "done" /\ valid = "failed" /\ output.written /\ exitCode = 0

(***************************************************************************)
(* C10 (as stated): every document the loop returns, and so every document *)
(* written, is a mapping with a truthy openapi and a non-empty paths,      *)
(* whether it came from oasDefinition or from the Spec Locator.            *)
(***************************************************************************)
C10_ReturnedIsValidDoc ==
    /\ LoopReturned => ValidDoc(found)
    /\ output.written => ValidDoc(output.doc)

\* The last page's document came from the direct key.
ViaDirectKey == Truthy(Get(fetched[Len(fetched)].page.val, "oasDefinition"))

(***************************************************************************)
(* C10 (amended): every document the loop returns, and so every document   *)
(* written, is a mapping with a truthy paths; it has a truthy openapi as   *)
(* well when the Spec Locator found it, while a document taken from the    *)
(* direct oasDefinition key is accepted without a look at openapi.         *)
(***************************************************************************)
C10_ReturnedHasPaths ==
    /\ LoopReturned =>
          /\ found.k = "map"
          /\ Truthy(Get(found, "paths"))
          /\ ~ViaDirectKey => Truthy(Get(found, "openapi"))
    /\ output.written =>
          /\ output.doc.k = "map"
          /\ Truthy(Get(output.doc, "paths"))
          /\ ~ViaDirectKey => Truthy(Get(output.doc, "openapi"))

\* A document found by the locator is written.
C10_Witness == pc = "done" /\ ~ViaDirectKey /\ output.written /\ output.doc = DocPlain

(***************************************************************************)
(* C6: the sanitizer removes exactly the top-level keys that start with    *)
(* "_" and do not start with "x-"; every other top-level key keeps its     *)
(* place and its value, and nothing below the top level changes.           *)
(***************************************************************************)
Underscored(key) == Len(Chars(key)) >= 1 /\ Chars(key)[1] = "_"
Extension(key) == Len(Chars(key)) >= 2 /\ Chars(key)[1] = "x" /\ Chars(key)[2] = "-"
KeySet(m) == {m.keys[j] : j \in 1..Len(m.keys)}

\* xs is ys with some entries left out, order kept.
IsSubSeq(xs, ys) ==
    xs = SelectSeq(ys, LAMBDA y : \E j \in 1..Len(xs) : xs[j] = y)

C6_SanitizerFrame ==
    pc \in {"validate", "write", "done"} =>
        /\ spec.k = "map"
        /\ KeySet(spec) = {key \in KeySet(found) : ~(Underscored(key) /\ ~Extension(key))}
        /\ IsSubSeq(spec.keys, found.keys)
        /\ \A key \in KeySet(spec) : Get(spec, key) = Get(found, key)
        /\ {"openapi", "paths"} \cap KeySet(found) \subseteq KeySet(spec)

\* A document with private keys, an extension key and a nested private key.
C6_Witness ==
    /\ pc = "done"
    /\ found = DocFull
    /\ KeySet(output.doc) = {"openapi", "info", "paths", "x-foo", "x_bar"}
    /\ HasKey(Get(output.doc, "info"), "_internal")

(***************************************************************************)
(* C7 (as stated): for a page that was fetched, _get_initial_props raises  *)
(* nothing when the element is absent or its JSON malformed: it returns an *)
(* empty mapping, prints exactly one decode warning in the malformed case, *)
(* and a decode failure on a page (root or slug) never aborts the run.     *)
(***************************************************************************)
\* The step requested a page / the page it requested.
RequestedPage == rootPage' # rootPage \/ fetched' # fetched
ThePage == IF fetched' # fetched THEN fetched'[Len(fetched')].page ELSE rootPage'
ElementAbsent(page) == page.status = "ok" /\ ~page.tag
Malformed(page) == page.status = "ok" /\ page.tag /\ page.attr /\ ~page.wf

C7_DecodeFailureNeverAborts ==
    [][RequestedPage =>
          /\ ElementAbsent(ThePage) =>
                (props' = Ret("none", EmptyMap, 0) /\ warnings' = warnings)
          /\ Malformed(ThePage) =>
                /\ props'.raised = "none"
                /\ props'.val = EmptyMap
                /\ warnings' = warnings + 1
                /\ error' = "none"
                /\ pc' \notin {"except", "exit1"}]_vars

(***************************************************************************)
(* C7 (amended): for a page that was fetched, _get_initial_props raises    *)
(* nothing when the element is absent or its JSON malformed: it returns an *)
(* empty mapping and prints exactly one decode warning in the malformed    *)
(* case.  A decode failure on a slug page never aborts the run: the slug   *)
(* is a miss and the loop goes on.  On the root page the empty mapping has *)
(* no sidebars, so the run ends with the structural error.                 *)
(***************************************************************************)
C7_DecodeFailureIsEmptyProps ==
    [][RequestedPage =>
          /\ ElementAbsent(ThePage) =>
                (props' = Ret("none", EmptyMap, 0) /\ warnings' = warnings)
          /\ Malformed(ThePage) =>
                /\ props'.raised = "none"
                /\ props'.val = EmptyMap
                /\ warnings' = warnings + 1
                /\ fetched' # fetched =>
                      (error' = "none" /\ pc' = "loop" /\ i' = i + 1)
                /\ fetched' = fetched =>
                      (error' = "LayoutChanged" /\ pc' = "except")]_vars

\* A malformed slug page was passed over and a later page gave the document.
C7_Witness ==
    /\ pc = "done"
    /\ \E j \in 1..Len(fetched) : Malformed(fetched[j].page)
    /\ warnings = 1

(***************************************************************************)
(* C9 (as stated): whenever sidebars has an entry keyed refs, that entry   *)
(* is the navigation root; the first entry of sidebars is used only when   *)
(* refs is absent; the structural error is raised exactly when sidebars is *)
(* missing, not a mapping, or empty.                                       *)
(***************************************************************************)
RootDecoded == pc # "main" /\ rootPage.status = "ok" /\ rootPage.tag /\ rootPage.attr /\ rootPage.wf
RootProps == rootPage.val
SidebarsEntry == Get(RootProps, "sidebars")
NoSidebars ==
    \/ RootProps.k # "map"
    \/ ~HasKey(RootProps, "sidebars")
    \/ SidebarsEntry.k # "map"
    \/ Len(SidebarsEntry.keys) = 0
RootChosen == RootDecoded /\ ~NoSidebars

C9_RefsWheneverPresent ==
    /\ RootChosen /\ HasKey(SidebarsEntry, "refs") => sidebars = Get(SidebarsEntry, "refs")
    /\ RootChosen /\ ~HasKey(SidebarsEntry, "refs") => sidebars = SidebarsEntry.e[1]
    /\ RootDecoded /\ RootProps.k = "map" => (error = "LayoutChanged" <=> NoSidebars)

(***************************************************************************)
(* C9 (amended): for root props that are a mapping, the entry keyed refs   *)
(* is the navigation root whenever it is present and truthy; when refs is  *)
(* absent or falsy (null, empty) the first entry of sidebars is used, even *)
(* if that is another sidebar; the structural error is raised exactly when *)
(* sidebars is missing, not a mapping, or empty.  Root props that are not  *)
(* a mapping end the run with an AttributeError instead.                   *)
(***************************************************************************)
C9_RefsWhenTruthy ==
    /\ RootChosen /\ Truthy(Get(SidebarsEntry, "refs")) => sidebars = Get(SidebarsEntry, "refs")
    /\ RootChosen /\ ~Truthy(Get(SidebarsEntry, "refs")) => sidebars = SidebarsEntry.e[1]
    /\ RootDecoded /\ RootProps.k = "map" => (error = "LayoutChanged" <=> NoSidebars)
    /\ RootDecoded /\ RootProps.k # "map" => (error = "AttributeError" /\ fetched = <<>>)

\* refs is present and empty, and the docs sidebar is walked in its place.
C9_Witness ==
    /\ pc = "loop"
    /\ HasProps(rootPage, Sidebars(<<"docs", "refs">>, <<List(<<Ep("d")>>), List(<<>>)>>))
    /\ sidebars = List(<<Ep("d")>>)
    /\ slugs = <<Str("d")>>

(***************************************************************************)
(* C4: the slug discoverer returns exactly the slugs of the leaf-endpoint  *)
(* nodes (type "endpoint", non-empty slug) in pre-order, each slug once at *)
(* the place of its first encounter; non-mapping entries give nothing.     *)
(***************************************************************************)
Kids(n, key) == IF HoldsKids(n, key) THEN Get(n, key).e ELSE <<>>

\* The mapping nodes of a tree, a node before its descendants, siblings in order.
RECURSIVE NodesPreOrder(_)
NodesPreOrder(nodes) ==
    IF Len(nodes) = 0 THEN <<>>
    ELSE LET n == Head(nodes)
         IN  (IF n.k = "map"
              THEN <<n>> \o NodesPreOrder(Kids(n, "pages") \o Kids(n, "children")
                                           \o Kids(n, "items"))
              ELSE <<>>)
             \o NodesPreOrder(Tail(nodes))

LeafEndpoint(n) ==
    /\ HasKey(n, "type") /\ Get(n, "type") = Str("endpoint")
    /\ HasKey(n, "slug") /\ Get(n, "slug").k = "str" /\ Get(n, "slug").s # ""

EndpointSlugs(nodes) ==
    LET leaves == SelectSeq(NodesPreOrder(nodes), LeafEndpoint)
    IN  [j \in 1..Len(leaves) |-> Get(leaves[j], "slug")]

FirstAt(xs, x) == CHOOSE j \in 1..Len(xs) : xs[j] = x /\ \A h \in 1..(j - 1) : xs[h] # x
Range(xs) == {xs[j] : j \in 1..Len(xs)}

C4_LeafSlugsInPreOrderOnce ==
    pc \in {"walked", "moved"} =>
        /\ Range(out) = Range(EndpointSlugs(nav))
        /\ \A a, b \in 1..Len(out) :
              a < b => /\ out[a] # out[b]
                       /\ FirstAt(EndpointSlugs(nav), out[a]) < FirstAt(EndpointSlugs(nav), out[b])

\* A tree with skipped entries, a parent before its children and repeated slugs.
C4_Witness ==
    /\ pc = "walked"
    /\ Len(nav) = 4
    /\ EndpointSlugs(nav) = <<Str("m"), Str("a"), Str("b"), Str("a"), Str("m")>>
    /\ out = <<Str("m"), Str("a"), Str("b")>>

(***************************************************************************)
(* C8 (as stated): moving a node's children from one recognized child key  *)
(* to another yields the same output slug list, whatever mix of the keys   *)
(* the node's children are spread over.                                    *)
(***************************************************************************)
C8_MoveKeepsList == pc = "moved" => out2 = out

(***************************************************************************)
(* C8 (amended): moving a node's children from one recognized child key to *)
(* another yields the same slug list when the node holds children under    *)
(* that key only; when its children are spread over several keys the move  *)
(* yields the same slugs but can change their order, because the keys are  *)
(* read in the fixed order pages, children, items.                         *)
(***************************************************************************)
OnlyHolder(n, key) == \A other \in RecognizedKeys \ {key} : ~HoldsKids(n, other)

C8_MoveKeepsSlugs ==
    pc = "moved" =>
        /\ Range(out2) = Range(out)
        /\ Len(out2) = Len(out)
        /\ OnlyHolder(mv.node, mv.from) => out2 = out

\* The only child key of a node below the top is renamed, the list is the same.
C8_Witness ==
    /\ pc = "moved"
    /\ Len(nav) = 4
    /\ OnlyHolder(mv.node, mv.from)
    /\ Len(Kids(mv.node, mv.from)) >= 1
    /\ nav2 # nav
    /\ out2 = out
    /\ Len(out) >= 2

(***************************************************************************)
(* C5: _find_oas returns the first mapping in depth-first order that has a *)
(* truthy openapi and a truthy paths, without descending into it; a        *)
(* mapping that fails the test is not returned but its values are          *)
(* searched; the result is "not found" exactly when no mapping in the      *)
(* value passes the test.                                                  *)
(***************************************************************************)
ValidMaps(v) == SelectSeq(MapsPreOrder(v), ValidDoc)

C5_FirstValidMapping ==
    pc = "located" =>
        /\ ValidMaps(obj) # <<>> => located = ValidMaps(obj)[1]
        /\ ValidMaps(obj) = <<>> <=> located = Null

\* A mapping with paths and no openapi is passed over, the document inside
\* its values is returned, and the valid sibling after it is not.
C5_Witness ==
    /\ pc = "located"
    /\ obj = List(<<PathsAroundDoc, DocAroundDoc>>)
    /\ located = DocFull
    /\ Len(ValidMaps(obj)) = 3

====
